---- MODULE Spec2Model ----
(***************************************************************************)
(* Model of the Bengali -> Sylheti prompt generator                        *)
(* (bengali_to_sylheti_prompt_generator.py): the tokenizer, the glossary   *)
(* loader and filter, and the few-shot example selector.                   *)
(*                                                                         *)
(* A text is a sequence of characters.  A character is written as a short  *)
(* string: "ka" and "ba" are two letters of the Bengali block              *)
(* (U+0995, U+09AC), " " is the space, "A" and "a" are the Latin capital   *)
(* and small letter.                                                       *)
(*                                                                         *)
(* Spec          one call of select_fewshot_examples, statement by         *)
(*               statement, with every outcome of random.sample and        *)
(*               random.shuffle                                            *)
(* SpecGlossary  load_glossary followed by filter_relevant_glossary        *)
(***************************************************************************)
EXTENDS Integers, Sequences, FiniteSets, TLC

VARIABLES
    pc,                 \* position in the modelled call
    input_sentence,     \* the sentence to translate
    examples,           \* the caller's few-shot pool (a list of dicts)
    num_examples,       \* the requested count
    scored_examples,    \* local list of (similarity, example)
    top_examples,       \* local list
    remaining,          \* local list
    random_examples,    \* local list returned by random.sample
    result,             \* the list returned
    csv_rows,           \* the 'ben' and 'syl' fields of the glossary CSV rows
    glossary,           \* the list built by load_glossary
    unique_entries      \* the list returned by filter_relevant_glossary

vars == <<pc, input_sentence, examples, num_examples, scored_examples,
          top_examples, remaining, random_examples, result, csv_rows,
          glossary, unique_entries>>

selectVars == <<examples, num_examples, scored_examples, top_examples,
                remaining, random_examples, result>>

glossaryVars == <<csv_rows, glossary, unique_entries>>

----------------------------------------------------------------------------
(* Bounds and input sets *)

MaxPool == 5
MaxK == 4
MaxNegK == 1
MaxRows == 3

\* Sentences used as the input sentence and as bangla_speech of the examples.
Corpus ==
    { <<"ka">>, <<"ka", " ", "ba">>, <<"A">> }

\* Sentences given to the glossary filter.
GlossarySentences ==
    Corpus \cup { <<"ka", "ba">>, <<"a", " ", "ka">> }

\* 'ben' fields as they stand in the CSV file, before any strip().
RawWords ==
    { <<"ka">>, <<" ", "ka">>, <<"ka", " ">>, <<"ba">>, <<"ka", " ", "ba">>,
      <<"A">>, <<"a">>, <<>> }

----------------------------------------------------------------------------
(* Text helpers *)

Max(a, b) == IF a >= b THEN a ELSE b

Min(a, b) == IF a <= b THEN a ELSE b

Range(s) == { s[i] : i \in 1..Len(s) }

\* The characters matched by the class [\u0980-\u09FF].
IsBengali(c) == c \in {"ka", "ba"}

IsSpace(c) == c = " "

\* str.lower() on one character.
LowerChar(c) == IF c = "A" THEN "a" ELSE c

\* str.lower()
Lower(s) == [i \in 1..Len(s) |-> LowerChar(s[i])]

RECURSIVE LStrip(_)
LStrip(s) ==
    IF s # <<>> /\ IsSpace(Head(s)) THEN LStrip(Tail(s)) ELSE s

RECURSIVE RStrip(_)
RStrip(s) ==
    IF s # <<>> /\ IsSpace(s[Len(s)])
    THEN RStrip(SubSeq(s, 1, Len(s) - 1))
    ELSE s

\* str.strip()
Strip(s) == RStrip(LStrip(s))

\* The operator `in` between two strings.
IsSubstr(w, s) ==
    \E i \in 0..(Len(s) - Len(w)) : SubSeq(s, i + 1, i + Len(w)) = w

\* re.findall(r'[\u0980-\u09FF]+', sentence): the maximal runs of Bengali
\* characters, in order.  cur is the run being read.
RECURSIVE FindRuns(_, _, _)
FindRuns(s, cur, acc) ==
    IF s = <<>>
    THEN IF cur = <<>> THEN acc ELSE Append(acc, cur)
    ELSE IF IsBengali(Head(s))
         THEN FindRuns(Tail(s), Append(cur, Head(s)), acc)
         ELSE FindRuns(Tail(s), <<>>,
                       IF cur = <<>> THEN acc ELSE Append(acc, cur))

tokenize_sentence(sentence) == FindRuns(sentence, <<>>, <<>>)

\* set(tokenize_sentence(x.lower()))
TokenSet(sentence) == Range(tokenize_sentence(Lower(sentence)))

----------------------------------------------------------------------------
(* select_fewshot_examples *)

\* int(num_examples * 0.6): the product truncated towards zero.
IntOfSixTenths(k) ==
    IF k >= 0 THEN (6 * k) \div 10 ELSE -((-6 * k) \div 10)

\* max(1, int(num_examples * 0.6))
TopN(k) == Max(1, IntOfSixTenths(k))

\* The test of line 69: the whole pool is returned.
UseAllMut(pool, k) == Len(pool) < k

UseAll(pool, k) == Len(pool) <= k

\* Jaccard similarity of two token sets.  The float quotient a / b is kept
\* as the pair <<a, b>>; two quotients of small integers compare as floats
\* exactly as they compare as fractions.
SimilarityMut(I, E) ==
    <<Cardinality(I \cap E), Max(1, Cardinality(I))>>

Similarity(I, E) ==
    <<Cardinality(I \cap E), Max(1, Cardinality(I \cup E))>>

SimGreater(a, b) == a[1] * b[2] > b[1] * a[2]

SimEqual(a, b) == a[1] * b[2] = b[1] * a[2]

\* The list built by the loop of lines 77-82.
Scored(sentence, pool) ==
    [i \in 1..Len(pool) |->
        <<Similarity(TokenSet(sentence), TokenSet(pool[i].bangla_speech)),
          pool[i]>>]

\* list.sort(key=..., reverse=True) is stable: an item goes behind every
\* item whose key is greater than or equal to its own.
GoesBeforeMut(x, y) == SimGreater(y[1], x[1])

GoesBefore(x, y) == SimGreater(x[1], y[1])

RECURSIVE InsertSorted(_, _)
InsertSorted(sorted, x) ==
    IF sorted = <<>> THEN <<x>>
    ELSE IF GoesBefore(x, Head(sorted))
         THEN <<x>> \o sorted
         ELSE <<Head(sorted)>> \o InsertSorted(Tail(sorted), x)

RECURSIVE SortDescFrom(_, _)
SortDescFrom(todo, sorted) ==
    IF todo = <<>> THEN sorted
    ELSE SortDescFrom(Tail(todo), InsertSorted(sorted, Head(todo)))

SortDesc(s) == SortDescFrom(s, <<>>)

\* [ex for _, ex in scored[:n]]
TopSlice(scored, n) ==
    [i \in 1..Min(n, Len(scored)) |-> scored[i][2]]

\* [ex for _, ex in scored[n:]]
RestSlice(scored, n) ==
    [i \in 1..Max(0, Len(scored) - n) |-> scored[n + i][2]]

\* The second argument of random.sample (line 95).
SampleSizeMut(rest, k, top) == Min(Len(rest), k)

SampleSize(rest, k, top) == Min(Len(rest), k - Len(top))

\* The index sequences random.sample can draw: m positions of 1..n, without
\* replacement, in any order.
SampleDrawsMut(n, m) == [1..m -> 1..n]

SampleDraws(n, m) ==
    { f \in [1..m -> 1..n] : \A a, b \in 1..m : a # b => f[a] # f[b] }

\* The orders random.shuffle can leave a list of n items in.
ShuffleOrders(n) == Permutations(1..n)

\* A text that differs from row to row: it tells the items of a list apart,
\* as their identity does in the program.
TargetText(i) == [j \in 1..i |-> "ba"]

\* The pools load_fewshot_examples can hand over.
Pools ==
    UNION { { [i \in 1..n |-> [bangla_speech |-> f[i],
                               sylhet_bangla_speech |-> TargetText(i)]] :
              f \in [1..n -> Corpus] } : n \in 0..MaxPool }

Init ==
    /\ pc = "call"
    /\ input_sentence \in Corpus
    /\ examples \in Pools
    /\ num_examples \in (0 - MaxNegK)..MaxK
    /\ scored_examples = <<>>
    /\ top_examples = <<>>
    /\ remaining = <<>>
    /\ random_examples = <<>>
    /\ result = <<>>
    /\ csv_rows = <<>>
    /\ glossary = <<>>
    /\ unique_entries = <<>>

\* Lines 69-71: the pool itself is returned.
ReturnAll ==
    /\ pc = "call"
    /\ UseAll(examples, num_examples)
    /\ result' = examples
    /\ pc' = "done"
    /\ UNCHANGED <<input_sentence, examples, num_examples, scored_examples,
                   top_examples, remaining, random_examples,
                   glossaryVars>>

\* Lines 74-82.
Score ==
    /\ pc = "call"
    /\ ~ UseAll(examples, num_examples)
    /\ scored_examples' = Scored(input_sentence, examples)
    /\ pc' = "scored"
    /\ UNCHANGED <<input_sentence, examples, num_examples, top_examples,
                   remaining, random_examples, result, glossaryVars>>

SortMut ==
    /\ pc = "scored"
    /\ scored_examples' = SortDesc(scored_examples)
    /\ examples' = [i \in 1..Len(examples) |-> scored_examples'[i][2]]
    /\ pc' = "sorted"
    /\ UNCHANGED <<input_sentence, num_examples, top_examples,
                   remaining, random_examples, result, glossaryVars>>

\* Line 85: scored_examples is sorted in place.
Sort ==
    /\ pc = "scored"
    /\ scored_examples' = SortDesc(scored_examples)
    /\ pc' = "sorted"
    /\ UNCHANGED <<input_sentence, examples, num_examples, top_examples,
                   remaining, random_examples, result, glossaryVars>>

\* Lines 88-91.
Split ==
    /\ pc = "sorted"
    /\ top_examples' = TopSlice(scored_examples, TopN(num_examples))
    /\ remaining' = RestSlice(scored_examples, TopN(num_examples))
    /\ pc' = "split"
    /\ UNCHANGED <<input_sentence, examples, num_examples, scored_examples,
                   random_examples, result, glossaryVars>>

\* Lines 93-96: random.sample raises ValueError when the count asked for is
\* negative or exceeds the population; nothing catches it.
SampleRaises ==
    /\ pc = "split"
    /\ LET m == SampleSize(remaining, num_examples, top_examples)
       IN  ~ (0 <= m /\ m <= Len(remaining))
    /\ pc' = "error"
    /\ UNCHANGED <<input_sentence, selectVars, glossaryVars>>

\* Lines 93-96.
Sample ==
    /\ pc = "split"
    /\ LET m == SampleSize(remaining, num_examples, top_examples)
       IN  /\ 0 <= m /\ m <= Len(remaining)
           /\ \E f \in SampleDraws(Len(remaining), m) :
                random_examples' = [i \in 1..m |-> remaining[f[i]]]
    /\ pc' = "sampled"
    /\ UNCHANGED <<input_sentence, examples, num_examples, scored_examples,
                   top_examples, remaining, result, glossaryVars>>

\* Lines 98-102: a new list is built, shuffled in place and returned; the
\* locals of the call go with its frame.
Shuffle ==
    /\ pc = "sampled"
    /\ LET selected_examples == top_examples \o random_examples
       IN  \E f \in ShuffleOrders(Len(selected_examples)) :
             result' = [i \in 1..Len(selected_examples) |->
                           selected_examples[f[i]]]
    /\ scored_examples' = <<>>
    /\ top_examples' = <<>>
    /\ remaining' = <<>>
    /\ random_examples' = <<>>
    /\ pc' = "done"
    /\ UNCHANGED <<input_sentence, examples, num_examples, glossaryVars>>

Next ==
    \/ ReturnAll
    \/ Score
    \/ Sort
    \/ Split
    \/ SampleRaises
    \/ Sample
    \/ Shuffle

Spec == Init /\ [][Next]_vars

----------------------------------------------------------------------------
(* load_glossary and filter_relevant_glossary *)

\* The dict appended for one CSV row (lines 34-37).
LoadedEntryMut(row) ==
    [bangla |-> row.ben, sylheti |-> Strip(row.syl)]

LoadedEntry(row) ==
    [bangla |-> Strip(row.ben), sylheti |-> Strip(row.syl)]

\* load_glossary on a file whose header has the columns ben and syl.
load_glossary(rows) == [i \in 1..Len(rows) |-> LoadedEntry(rows[i])]

\* The first half of the test of line 56.
MatchesMut(bangla_word, sentence) ==
    bangla_word \in TokenSet(sentence)

Matches(bangla_word, sentence) ==
    \/ bangla_word \in TokenSet(sentence)
    \/ IsSubstr(bangla_word, Lower(sentence))

\* The loop of lines 54-58 over the entries still to visit.
RECURSIVE FilterLoop(_, _, _, _)
FilterLoop(sentence, todo, seen, unique) ==
    IF todo = <<>> THEN unique
    ELSE LET entry == Head(todo)
             bangla_word == Lower(Strip(entry.bangla))
         IN  IF Matches(bangla_word, sentence) /\ bangla_word \notin seen
             THEN FilterLoop(sentence, Tail(todo),
                             seen \cup {bangla_word}, Append(unique, entry))
             ELSE FilterLoop(sentence, Tail(todo), seen, unique)

filter_relevant_glossary(sentence, entries) ==
    FilterLoop(sentence, entries, {}, <<>>)

\* The CSV files: up to MaxRows rows, each with its own 'syl' text.
CsvFiles ==
    UNION { { [i \in 1..n |-> [ben |-> f[i], syl |-> TargetText(i)]] :
              f \in [1..n -> RawWords] } : n \in 0..MaxRows }

InitGlossary ==
    /\ pc = "start"
    /\ input_sentence \in GlossarySentences
    /\ csv_rows \in CsvFiles
    /\ glossary = <<>>
    /\ unique_entries = <<>>
    /\ examples = <<>>
    /\ num_examples = 0
    /\ scored_examples = <<>>
    /\ top_examples = <<>>
    /\ remaining = <<>>
    /\ random_examples = <<>>
    /\ result = <<>>

\* generate_prompt, line 159.
LoadGlossary ==
    /\ pc = "start"
    /\ glossary' = load_glossary(csv_rows)
    /\ pc' = "loaded"
    /\ UNCHANGED <<input_sentence, csv_rows, unique_entries, selectVars>>

\* generate_prompt, line 163.
FilterRelevantGlossary ==
    /\ pc = "loaded"
    /\ unique_entries' = filter_relevant_glossary(input_sentence, glossary)
    /\ pc' = "filtered"
    /\ UNCHANGED <<input_sentence, csv_rows, glossary, selectVars>>

NextGlossary ==
    \/ LoadGlossary
    \/ FilterRelevantGlossary

SpecGlossary == InitGlossary /\ [][NextGlossary]_vars

----------------------------------------------------------------------------
(* Properties of select_fewshot_examples, checked under Spec *)

Terminal == pc \in {"done", "error"}

PoolExceedsK == Len(examples) > num_examples

\* max(1, floor(0.6 * k)) as the specification writes it.
FloorTopN(k) == Max(1, (6 * k) \div 10)

InResult(i) == examples[i] \in Range(result)

\* The similarity of the input sentence and the example at pool position i.
SimOf(i) ==
    LET I == TokenSet(input_sentence)
        E == TokenSet(examples[i].bangla_speech)
    IN  <<Cardinality(I \cap E), Max(1, Cardinality(I \cup E))>>

\* The number of pool positions ranked before i when the pool is ordered by
\* similarity descending, ties in pool order.
RankOf(i) ==
    Cardinality({ j \in 1..Len(examples) :
                    \/ SimGreater(SimOf(j), SimOf(i))
                    \/ SimEqual(SimOf(j), SimOf(i)) /\ j < i })

\* C1 as stated: whenever the pool is longer than k the call returns a
\* result of length at most k and at least max(1, floor(0.6k)).
C1_Original ==
    (Terminal /\ PoolExceedsK) =>
        /\ pc = "done"
        /\ Len(result) <= num_examples
        /\ Len(result) >= FloorTopN(num_examples)

\* C1 amended: with the pool longer than k, a call with k >= 1 returns a
\* result of length at most k and at least max(1, floor(0.6k)); a call with
\* k <= 0 returns nothing, random.sample raises ValueError.
C1_LengthBounds ==
    (Terminal /\ PoolExceedsK) =>
        IF num_examples >= 1
        THEN /\ pc = "done"
             /\ Len(result) <= num_examples
             /\ Len(result) >= FloorTopN(num_examples)
        ELSE pc = "error"

C1_Witness ==
    /\ pc = "done"
    /\ PoolExceedsK
    /\ num_examples >= 4
    /\ Len(result) >= 2
    /\ Len(result) <= num_examples

\* C2: a call with k <= 0 and a non-empty pool completes without error and
\* returns at least one example.
C2_Claim ==
    (Terminal /\ num_examples <= 0 /\ Len(examples) >= 1) =>
        (pc = "done" /\ Len(result) >= 1)

Identical(i) == examples[i].bangla_speech = input_sentence

\* C3 as stated: with the pool longer than k, every example whose source
\* sentence is the input sentence is in the top tranche and in the result.
C3_Original ==
    \A i \in 1..Len(examples) :
        (PoolExceedsK /\ Identical(i)) =>
            /\ pc = "split" => examples[i] \in Range(top_examples)
            /\ Terminal => (pc = "done" /\ InResult(i))

\* The examples before pool position i whose token set is the input's.
EarlierTwins(i) ==
    { j \in 1..(i - 1) :
        TokenSet(examples[j].bangla_speech) = TokenSet(input_sentence) }

\* C3 amended: with the pool longer than k, an example whose source sentence
\* is the input sentence is in the top tranche, and in the result of a call
\* with k >= 1, provided the sentence has a token and fewer than top_n
\* earlier examples of the pool have the same token set.
C3_IdenticalSelected ==
    \A i \in 1..Len(examples) :
        ( /\ PoolExceedsK
          /\ Identical(i)
          /\ TokenSet(input_sentence) # {}
          /\ Cardinality(EarlierTwins(i)) < FloorTopN(num_examples) ) =>
            /\ pc = "split" => examples[i] \in Range(top_examples)
            /\ (Terminal /\ num_examples >= 1) => (pc = "done" /\ InResult(i))

C3_Witness ==
    /\ pc = "done"
    /\ PoolExceedsK
    /\ \E i \in 2..Len(examples) :
         /\ Identical(i)
         /\ TokenSet(input_sentence) # {}
         /\ Cardinality(EarlierTwins(i)) = 1
         /\ Cardinality(EarlierTwins(i)) < FloorTopN(num_examples)
         /\ TokenSet(examples[1].bangla_speech) # TokenSet(input_sentence)
         /\ InResult(i)

\* C6: a pool of at most k examples is returned as it is, in its order, and
\* the call never reaches the scoring, the sampling or the shuffle.
C6_PoolReturned ==
    (pc # "call" /\ Len(examples) <= num_examples) =>
        /\ pc = "done"
        /\ result = examples
        /\ scored_examples = <<>>
        /\ random_examples = <<>>

C6_Witness ==
    /\ pc = "done"
    /\ Len(examples) = num_examples
    /\ Len(examples) >= 2
    /\ result = examples

\* C7: every similarity computed by the scoring loop is |I n E| over
\* max(1, |I u E|) for either order of the two sets, lies in [0,1], is 1 for
\* equal non-empty sets and 0 when both sets are empty.
C7_Jaccard ==
    pc = "scored" =>
        \A i \in 1..Len(scored_examples) :
            LET sim == scored_examples[i][1]
                I == TokenSet(input_sentence)
                E == TokenSet(examples[i].bangla_speech)
            IN  /\ sim[2] >= 1
                /\ 0 <= sim[1]
                /\ sim[1] <= sim[2]
                /\ sim = Similarity(E, I)
                /\ sim[1] = Cardinality(E \cap I)
                /\ (I = E /\ I # {}) => sim[1] = sim[2]
                /\ (I = {} /\ E = {}) => (sim[1] = 0 /\ sim[2] = 1)

C7_Witness ==
    /\ pc = "scored"
    /\ \E i, j \in 1..Len(scored_examples) :
         /\ scored_examples[i][1][1] = scored_examples[i][1][2]
         /\ TokenSet(examples[i].bangla_speech) = TokenSet(input_sentence)
         /\ 0 < scored_examples[j][1][1]
         /\ scored_examples[j][1][1] < scored_examples[j][1][2]

\* C8: with the pool longer than k, the call returns a result that holds
\* the first top_n examples of the pool ordered by similarity descending,
\* ties in pool order.
C8_Claim ==
    (Terminal /\ PoolExceedsK) =>
        /\ pc = "done"
        /\ \A i \in 1..Len(examples) :
             RankOf(i) < FloorTopN(num_examples) => InResult(i)

\* Supporting C8: whenever a result is returned from a pool longer than k,
\* it holds that tranche, and the tranche is what line 88 takes.
StableTrancheWhenReturned ==
    \A i \in 1..Len(examples) :
        /\ (pc = "done" /\ PoolExceedsK /\ RankOf(i) < FloorTopN(num_examples))
              => InResult(i)
        /\ pc = "split" =>
              (RankOf(i) < FloorTopN(num_examples)
                 <=> examples[i] \in Range(top_examples))

\* C9: no step of the call changes the caller's pool.
C9_PoolUntouched == [][examples' = examples]_vars

C9_Witness ==
    /\ pc = "done"
    /\ PoolExceedsK
    /\ Len(result) >= 2
    /\ \E i \in 1..Len(result) : result[i] # examples[i]

\* C10: with k >= 1 and the pool longer than k, the remaining tranche holds
\* more than k - top_n examples, the call does not fail, and it returns
\* exactly k examples from k distinct pool positions.
C10_ExactlyK ==
    (num_examples >= 1 /\ PoolExceedsK) =>
        /\ pc = "split" =>
             Len(remaining) > num_examples - Len(top_examples)
        /\ pc # "error"
        /\ pc = "done" =>
             /\ Len(result) = num_examples
             /\ \A i \in 1..Len(result) : result[i] \in Range(examples)
             /\ \A i, j \in 1..Len(result) : i # j => result[i] # result[j]

C10_Witness ==
    /\ pc = "done"
    /\ PoolExceedsK
    /\ num_examples >= 4
    /\ Len(result) = num_examples

----------------------------------------------------------------------------
(* Properties of filter_relevant_glossary, checked under SpecGlossary *)

SourceWord(i) == Lower(glossary[i].bangla)

Qualifies(i) ==
    \/ SourceWord(i) \in Range(tokenize_sentence(Lower(input_sentence)))
    \/ IsSubstr(SourceWord(i), Lower(input_sentence))

FirstQualifying(i) ==
    /\ Qualifies(i)
    /\ \A j \in 1..(i - 1) : SourceWord(j) # SourceWord(i)

\* The entries at the positions from i on that are first qualifying ones.
RECURSIVE FirstQualifyingFrom(_)
FirstQualifyingFrom(i) ==
    IF i > Len(glossary) THEN <<>>
    ELSE IF FirstQualifying(i)
         THEN <<glossary[i]>> \o FirstQualifyingFrom(i + 1)
         ELSE FirstQualifyingFrom(i + 1)

\* C4: every returned entry has a source word that is a case-insensitive
\* substring of the sentence, and no two returned entries share a
\* lower-cased source word.
C4_RelevantAndUnique ==
    pc = "filtered" =>
        /\ \A i \in 1..Len(unique_entries) :
             IsSubstr(Lower(unique_entries[i].bangla), Lower(input_sentence))
        /\ \A i, j \in 1..Len(unique_entries) :
             i # j => Lower(unique_entries[i].bangla)
                        # Lower(unique_entries[j].bangla)

C4_Witness ==
    /\ pc = "filtered"
    /\ Len(unique_entries) >= 2
    /\ \E i \in 1..Len(csv_rows) : csv_rows[i].ben # Strip(csv_rows[i].ben)
    /\ \E i, j \in 1..Len(glossary) :
         i # j /\ SourceWord(i) = SourceWord(j) /\ Qualifies(i)

\* C5: an entry is returned iff its lower-cased source word is a token or a
\* substring of the lower-cased sentence and no earlier entry has the same
\* lower-cased source word; the output is in glossary order.
C5_FirstOccurrences ==
    pc = "filtered" => unique_entries = FirstQualifyingFrom(1)

C5_Witness ==
    /\ pc = "filtered"
    /\ \E i, j \in 1..Len(glossary) :
         /\ i < j
         /\ SourceWord(i) = SourceWord(j)
         /\ glossary[i] \in Range(unique_entries)
         /\ glossary[j] \notin Range(unique_entries)
         /\ SourceWord(i) \notin TokenSet(input_sentence)
    /\ \E i \in 1..Len(glossary) : ~ Qualifies(i)

====
